---- MODULE Spec2Model ----
(***************************************************************************)
(* tau - the thruster arrangement utility (src/tau.py).                    *)
(*                                                                         *)
(* Numbers are fixed point, TLC's integers being 32 bit:                   *)
(*   thrust          1 kgf = KGF units (1e-5 kgf), so that .999 * t is     *)
(*                   exact for every t that is a multiple of 0.01 kgf;     *)
(*   current coeffs  1 = 1000 units (milli), the precision of the source;  *)
(*   scale s         1 = 1000 units (per mille).                           *)
(* A vector of floats is [nan, v, q]: the real vector v / sqrt(q), or NaN  *)
(* (numpy's 0/0).  A float of the transformed orientations is a surd       *)
(* [nan, n, q, d]: the real n * sqrt(q) / d.                               *)
(***************************************************************************)
EXTENDS Integers, Sequences, FiniteSets, TLC

VARIABLES
    thrusters,        \* main: the Thruster3D list built from the JSON file
    max_current,      \* main: the --max-current option
    pc,               \* where the caller is: "init", "loop", "transformed", "got", "done", "returned", "crashed"
    caller,           \* "none", "main" (the sweep) or "api" (a direct call of the two functions)
    cell,             \* main: the index of the grid vertex in the double loop
    target,           \* the target_dir argument of the last transform_orientations call
    new_bases,        \* transform_orientations: the change of basis matrix (three columns)
    transformed,      \* transform_orientations: its result, one triple of surds per thruster
    tstatus,          \* how transform_orientations ended
    lp,               \* get_max_thrust: the locals of its last call
    outcome,          \* get_max_thrust: how its last call ended and what it returned
    mesh,             \* main: mesh_x / mesh_y / mesh_z, the cells stored so far
    max_rho           \* main: the running maximum

vars == <<thrusters, max_current, pc, caller, cell, target, new_bases, transformed,
          tstatus, lp, outcome, mesh, max_rho>>

----------------------------------------------------------------------------
(* Bounds of the model *)

\* target directions of a direct call are the integer vectors of [-MaxDir, MaxDir]^3
MaxDir == 2
\* the thrust values the LP search tries besides the bounds: k * GridUnit, |k| <= GridN
GridN == 1
\* the current budgets a returned thrust is compared across: -MaxProbe..MaxProbe amps
MaxProbe == 40

----------------------------------------------------------------------------
(* Program constants *)

KGF == 10^5
GridUnit == KGF

\* tau.py:11, in thrust units
DEFAULT_MAX_THRUSTS == <<-290000, 371000>>
\* tau.py:14-15, in milli
DEFAULT_FWD_CURRENT == <<741, 1890, -278>>
DEFAULT_REV_CURRENT == <<1360, 2040, -231>>
DEFAULT_MAX_CURRENT == 22
\* tau.py:160-161: the literal bounds of the half-thrusters
HALF_FWD_MAX == 371000
HALF_REV_MAX == 290000

----------------------------------------------------------------------------
(* Vectors *)

Abs(a) == IF a < 0 THEN -a ELSE a

Dot(a, b) == a[1] * b[1] + a[2] * b[2] + a[3] * b[3]

\* np.cross on exact components
Cross(a, b) == <<a[2] * b[3] - a[3] * b[2],
                 a[3] * b[1] - a[1] * b[3],
                 a[1] * b[2] - a[2] * b[1]>>

NaNVec == [nan |-> TRUE, v |-> <<0, 0, 0>>, q |-> 1]

Vec(v) == [nan |-> FALSE, v |-> v, q |-> 1]

\* x / np.linalg.norm(x): a zero norm gives 0/0 = nan in every component
\* (numpy warns and carries on)
Normalize(x) ==
    IF x.nan \/ Dot(x.v, x.v) = 0
    THEN NaNVec
    ELSE [nan |-> FALSE, v |-> x.v, q |-> Dot(x.v, x.v)]

\* np.cross on floats: nan in, nan out
CrossV(a, b) ==
    IF a.nan \/ b.nan THEN NaNVec
    ELSE [nan |-> FALSE, v |-> Cross(a.v, b.v), q |-> a.q * b.q]

\* target_dir[k] == 0 on floats (k is the Python index); nan == 0 is False
IsZeroAt(x, k) == ~x.nan /\ x.v[k + 1] = 0

----------------------------------------------------------------------------
(* Thruster3D *)

\* np.sin / np.cos of np.radians(deg), exact for the multiples of 90 degrees
SinDeg(deg) == CASE deg % 360 = 0   -> 0
                 [] deg % 360 = 90  -> 1
                 [] deg % 360 = 180 -> 0
                 [] deg % 360 = 270 -> -1

CosDeg(deg) == SinDeg(deg + 90)

\* Thruster3D.__init__
Thruster3D(x, y, z, theta, phi, max_thrusts, fwd_current, rev_current) ==
    [pos         |-> <<x, y, z>>,
     max_thrusts |-> max_thrusts,
     fwd_current |-> fwd_current,
     rev_current |-> rev_current,
     orientation |-> <<SinDeg(phi) * CosDeg(theta),
                       SinDeg(phi) * SinDeg(theta),
                       CosDeg(phi)>>]

\* Thruster3D.torque
torque(thruster) == Cross(thruster.pos, thruster.orientation)

\* main: the dict.get defaults of the optional keys of a thruster record
LoadThruster(raw) ==
    Thruster3D(raw.x, raw.y, raw.z, raw.theta, raw.phi,
               IF "max_thrusts" \in DOMAIN raw THEN raw.max_thrusts ELSE DEFAULT_MAX_THRUSTS,
               IF "fwd_current" \in DOMAIN raw THEN raw.fwd_current ELSE DEFAULT_FWD_CURRENT,
               IF "rev_current" \in DOMAIN raw THEN raw.rev_current ELSE DEFAULT_REV_CURRENT)

LoadThrusters(raws) == [i \in 1..Len(raws) |-> LoadThruster(raws[i])]

Raw(x, y, z, theta, phi) == [x |-> x, y |-> y, z |-> z, theta |-> theta, phi |-> phi]

\* The thruster files the model is run on (positions in length units):
\*   1  one thruster at the origin along +x
\*   2  two thrusters at (0,1,0) and (0,-1,0), both along +x
\*   3  two thrusters at (0,1,0) along +x and (0,-1,0) along -x
\*   4  two thrusters at the origin, along +x and along -x
\*   5  one thruster at the origin along +z
\*   6  file 1 with max_thrusts configured as [-1.0, 1.0]
ThrusterFiles ==
    << <<Raw(0, 0, 0, 0, 90)>>,
       <<Raw(0, 1, 0, 0, 90), Raw(0, -1, 0, 0, 90)>>,
       <<Raw(0, 1, 0, 0, 90), Raw(0, -1, 0, 180, 90)>>,
       <<Raw(0, 0, 0, 0, 90), Raw(0, 0, 0, 180, 90)>>,
       <<Raw(0, 0, 0, 0, 0)>>,
       <<[x |-> 0, y |-> 0, z |-> 0, theta |-> 0, phi |-> 90,
          max_thrusts |-> <<-KGF, KGF>>]>> >>

\* the values of --max-current the model is run on (amps)
MaxCurrents == {-100, -1, 0, 5, DEFAULT_MAX_CURRENT}

----------------------------------------------------------------------------
(* transform_orientations *)

NaNSurd == [nan |-> TRUE, n |-> 0, q |-> 1, d |-> 1]

\* NewBases without the guard of line 56: always the reference axis (1,0,0)
NewBases_NoGuard(target_dir) ==
    LET t == Normalize(Vec(target_dir))
        second_basis == Normalize(CrossV(t, Vec(<<1, 0, 0>>)))
        third_basis == Normalize(CrossV(t, second_basis))
    IN  <<t, second_basis, third_basis>>

\* lines 46-65: the three columns of new_bases
NewBases(target_dir) ==
    LET t == Normalize(Vec(target_dir))
        second_basis ==
            IF ~(IsZeroAt(t, 1) /\ IsZeroAt(t, 2))
            THEN Normalize(CrossV(t, Vec(<<1, 0, 0>>)))
            ELSE Normalize(CrossV(t, Vec(<<0, 1, 0>>)))
        third_basis == Normalize(CrossV(t, second_basis))
    IN  <<t, second_basis, third_basis>>

BasesNaN(B) == B[1].nan \/ B[2].nan \/ B[3].nan

\* the determinant of the matrix of the columns' numerators
Det(B) == Dot(B[1].v, Cross(B[2].v, B[3].v))

\* row k of the inverse of the numerators' matrix, times Det(B)
AdjRow(B, k) == CASE k = 1 -> Cross(B[2].v, B[3].v)
                  [] k = 2 -> Cross(B[3].v, B[1].v)
                  [] k = 3 -> Cross(B[1].v, B[2].v)

\* np.linalg.inv(new_bases).dot(o), component k: with column k of new_bases
\* being v_k / sqrt(q_k), row k of the inverse is sqrt(q_k) * AdjRow / Det
InverseDot(B, k, o) ==
    IF BasesNaN(B) THEN NaNSurd
    ELSE [nan |-> FALSE, n |-> Dot(AdjRow(B, k), o), q |-> B[k].q, d |-> Det(B)]

\* lines 69-74
TransformResult(ths, B) ==
    [i \in 1..Len(ths) |-> [k \in 1..3 |-> InverseDot(B, k, ths[i].orientation)]]

\* how the call ends: np.linalg.inv raises on an exactly singular matrix and
\* lets nan through
TransformStatus(B) ==
    IF ~BasesNaN(B) /\ Det(B) = 0 THEN "LinAlgError" ELSE "returned"

----------------------------------------------------------------------------
(* Floats of the transformed orientations as exact integers *)

\* the integer square root, by bisection on [lo, hi)
RECURSIVE Bisect(_, _, _)
Bisect(n, lo, hi) ==
    IF hi - lo <= 1 THEN lo
    ELSE LET mid == (lo + hi) \div 2
         IN  IF mid * mid <= n THEN Bisect(n, mid, hi) ELSE Bisect(n, lo, mid)

ISqrt(n) == Bisect(n, 0, 46341)

IsSquare(n) == ISqrt(n) * ISqrt(n) = n

\* the surd is an integer
SurdExact(s) ==
    /\ ~s.nan
    /\ s.d # 0
    /\ IF s.n = 0 THEN TRUE ELSE IsSquare(s.q) /\ (s.n * ISqrt(s.q)) % s.d = 0

SurdValue(s) == IF s.n = 0 THEN 0 ELSE (s.n * ISqrt(s.q)) \div s.d

AllNaN(orients) ==
    \A i \in 1..Len(orients) : \A k \in 1..3 : orients[i][k].nan

AllExact(orients) ==
    \A i \in 1..Len(orients) : \A k \in 1..3 : SurdExact(orients[i][k])

Values3(orients) ==
    [i \in 1..Len(orients) |-> [k \in 1..3 |-> SurdValue(orients[i][k])]]

----------------------------------------------------------------------------
(* scipy.optimize.linprog(c, A_eq, b_eq, bounds, method="highs") *)

\* .999 * t, exact on the multiples of 0.01 kgf
Shave(t) == (999 * t) \div 1000

\* The magnitudes the search tries for a variable: 0, the thrust bounds, the
\* grid, and .999 of each (what the second program is asked to reproduce).
BaseMags == {0, -DEFAULT_MAX_THRUSTS[1], DEFAULT_MAX_THRUSTS[2], HALF_FWD_MAX, HALF_REV_MAX}
            \cup {k * GridUnit : k \in 1..GridN}

Mags == BaseMags \cup {Shave(m) : m \in BaseMags}

Candidates == Mags \cup {-m : m \in Mags}

RECURSIVE RowDot(_, _, _)
RowDot(row, x, n) == IF n = 0 THEN 0 ELSE RowDot(row, x, n - 1) + row[n] * x[n]

\* the points of the search within the bounds of the first n variables
RECURSIVE Box(_, _)
Box(bounds, n) ==
    IF n = 0 THEN {<<>>}
    ELSE {Append(x, v) : x \in Box(bounds, n - 1),
                         v \in {c \in Candidates : bounds[n][1] <= c /\ c <= bounds[n][2]}}

\* the points of the search that satisfy the bounds and the equality rows
Feasible(A_eq, b_eq, bounds) ==
    LET n == Len(bounds)
    IN  {x \in Box(bounds, n) :
            \A r \in 1..Len(A_eq) : RowDot(A_eq[r], x, n) = b_eq[r]}

NoResult == [status |-> 2, fun |-> 0, x |-> <<>>]

\* The results linprog may give: status 2 (infeasible; fun and x are None) or
\* status 0 with any one of the optimal points (box bounds: never unbounded).
Linprog(c, A_eq, b_eq, bounds) ==
    LET n    == Len(bounds)
        feas == Feasible(A_eq, b_eq, bounds)
        best == {x \in feas : \A y \in feas : RowDot(c, x, n) <= RowDot(c, y, n)}
    IN  IF feas = {} THEN {NoResult}
        ELSE {[status |-> 0, fun |-> RowDot(c, x, n), x |-> x] : x \in best}

----------------------------------------------------------------------------
(* get_max_thrust: the current derating step, lines 190-214 *)

\* a * t^2 of one thruster, in milli, for a thrust magnitude t
QuadA(coef, t) == ((((t \div 100) * (t \div 100)) \div 10) * coef[1]) \div 100000

\* b * t of one thruster, in milli
QuadB(coef, t) == (coef[2] * t) \div KGF

\* lines 190-202: the running totals after the first n thrusters
RECURSIVE Accumulate(_, _)
Accumulate(alloc, n) ==
    IF n = 0 THEN <<0, 0, 0>>
    ELSE LET acc    == Accumulate(alloc, n - 1)
             thrust == alloc[n]
             coef   == IF thrust >= 0 THEN DEFAULT_FWD_CURRENT ELSE DEFAULT_REV_CURRENT
         IN  <<acc[1] + QuadA(coef, Abs(thrust)),
               acc[2] + QuadB(coef, Abs(thrust)),
               acc[3] + coef[3]>>

\* line 204
SubtractBudget(q, budget) == <<q[1], q[2], q[3] - 1000 * budget>>

\* a * c / 1000 and the discriminant b^2 - 4ac over 1000, for coefficients
\* in milli (the products themselves do not fit TLC's integers)
ProductK(a, c) == a * (c \div 1000) + (a * (c % 1000)) \div 1000

DiscK(a, b, c) == (b * b) \div 1000 - 4 * ProductK(a, c)

\* sqrt(b^2 - 4ac) in milli, for a discriminant that is not negative
SqrtDisc(a, b, c) == 2 * ISqrt(250 * DiscK(a, b, c))

\* MaxRoot taking the smaller root of the quadratic
MaxRoot_Smaller(p) ==
    LET a == p[1]
        b == p[2]
        c == p[3]
    IN  IF a = 0 /\ b = 0 THEN [kind |-> "empty", re |-> 0]
        ELSE IF a = 0 THEN [kind |-> "real", re |-> (1000 * (-c)) \div b]
        ELSE IF DiscK(a, b, c) < 0
             THEN [kind |-> "complex", re |-> (1000 * (-b)) \div (2 * a)]
        ELSE [kind |-> "real", re |-> (1000 * (-SqrtDisc(a, b, c) - b)) \div (2 * a)]

\* np.roots(p) and the max of it (line 207):
\*   "empty"    no root: the leading zeros are stripped and a constant is left
\*   "real"     the larger root, in per mille
\*   "complex"  a conjugate pair; re is the real part, in per mille
MaxRoot(p) ==
    LET a == p[1]
        b == p[2]
        c == p[3]
    IN  IF a = 0 /\ b = 0 THEN [kind |-> "empty", re |-> 0]
        ELSE IF a = 0 THEN [kind |-> "real", re |-> (1000 * (-c)) \div b]
        ELSE IF DiscK(a, b, c) < 0
             THEN [kind |-> "complex", re |-> (1000 * (-b)) \div (2 * a)]
        ELSE [kind |-> "real", re |-> (1000 * (SqrtDisc(a, b, c) - b)) \div (2 * a)]

\* min(1., r): r when r < 1 (a complex r compares by its real part first)
ClampOne(re) == IF re < 1000 THEN re ELSE 1000

\* lines 209-212
RECURSIVE ThrustValue(_, _, _)
ThrustValue(alloc, orients, n) ==
    IF n = 0 THEN 0 ELSE ThrustValue(alloc, orients, n - 1) + alloc[n] * orients[n][1]

\* lines 190-214: what the call gives for a recombined allocation
Derate(alloc, orients, budget) ==
    LET q    == SubtractBudget(Accumulate(alloc, Len(alloc)), budget)
        root == MaxRoot(q)
        tv   == ThrustValue(alloc, orients, Len(alloc))
    IN  [current_quadratic |-> q,
         root              |-> root,
         thrust_value      |-> tv,
         outcome |->
            IF root.kind = "empty"
            THEN [kind |-> "ValueError", re |-> 0, complex |-> FALSE]
            ELSE [kind    |-> "returned",
                  re      |-> (tv * ClampOne(root.re)) \div 1000,
                  complex |-> root.kind = "complex"]]

----------------------------------------------------------------------------
(* get_max_thrust: the two linear programs, lines 78-188 *)

Column(rows, k) == [i \in 1..Len(rows) |-> rows[i][k]]

Negated(row) == [i \in 1..Len(row) |-> -row[i]]

\* each coefficient followed by its negation: the forward and the reverse
\* half-thruster (lines 142-158)
Duplicated(row) ==
    [j \in 1..(2 * Len(row)) |-> IF j % 2 = 1 THEN row[(j + 1) \div 2] ELSE -row[j \div 2]]

\* line 101: the same default bounds for every thruster
Bounds(orients) == [i \in 1..Len(orients) |-> DEFAULT_MAX_THRUSTS]

\* BoundsMinCurrent with the two literals in the other order
BoundsMinCurrent_Swapped(orients) ==
    [j \in 1..(2 * Len(orients)) |->
        IF j % 2 = 1 THEN <<0, HALF_REV_MAX>> ELSE <<0, HALF_FWD_MAX>>]

\* lines 160-161
BoundsMinCurrent(orients) ==
    [j \in 1..(2 * Len(orients)) |->
        IF j % 2 = 1 THEN <<0, HALF_FWD_MAX>> ELSE <<0, HALF_REV_MAX>>]

\* ObjectiveMinCurrent negating the weight of the reverse half like the rows do
ObjectiveMinCurrent_Negated(orients) ==
    [j \in 1..(2 * Len(orients)) |-> IF j % 2 = 1 THEN 1 ELSE -1]

\* lines 139-140
ObjectiveMinCurrent(orients) == [j \in 1..(2 * Len(orients)) |-> 1]

\* lines 91-119: the first program
MaxThrustResults(orients, t_constraints) ==
    Linprog(Negated(Column(orients, 1)),
            <<Column(orients, 2), Column(orients, 3),
              Column(t_constraints, 1), Column(t_constraints, 2), Column(t_constraints, 3)>>,
            <<0, 0, 0, 0, 0>>,
            Bounds(orients))

\* line 121
MaxThrustOf(fun) == Shave(-fun)

\* lines 137-181: the second program
MinCurrentResults(orients, t_constraints, max_thrust) ==
    Linprog(ObjectiveMinCurrent(orients),
            <<Duplicated(Column(orients, 1)), Duplicated(Column(orients, 2)),
              Duplicated(Column(orients, 3)),
              Duplicated(Column(t_constraints, 1)), Duplicated(Column(t_constraints, 2)),
              Duplicated(Column(t_constraints, 3))>>,
            <<max_thrust, 0, 0, 0, 0, 0>>,
            BoundsMinCurrent(orients))

\* lines 185-188: combine half-thrusters into full thrusters
Recombine(x) == [i \in 1..(Len(x) \div 2) |-> x[2 * i - 1] - x[2 * i]]

NoRoot == [kind |-> "none", re |-> 0]

NoOutcome == [kind |-> "none", re |-> 0, complex |-> FALSE]

Raised(what) == [kind |-> what, re |-> 0, complex |-> FALSE]

NoLp == [bounds |-> <<>>, status1 |-> -1, fun1 |-> 0, max_thrust |-> 0,
         bounds_mincurrent |-> <<>>, status2 |-> -1, fun2 |-> 0, x |-> <<>>,
         alloc |-> <<>>, current_quadratic |-> <<0, 0, 0>>, root |-> NoRoot,
         thrust_value |-> 0]

\* The runs of get_max_thrust on finite orientations: its locals at the end
\* and how it ended.  A failed program leaves fun and x None: -.999 * None
\* (line 121) and len(None) (line 186) raise TypeError.
GetMaxThrustRuns(orients, t_constraints, budget) ==
    LET \* only the status and fun of the first result are read
        firsts == {[status |-> r.status, fun |-> r.fun] :
                      r \in MaxThrustResults(orients, t_constraints)}
        lp1(r1) == [NoLp EXCEPT !.bounds = Bounds(orients), !.status1 = r1.status,
                                !.fun1 = r1.fun]
        after(r1, r2) ==
            LET l2 == [lp1(r1) EXCEPT !.max_thrust = MaxThrustOf(r1.fun),
                                      !.bounds_mincurrent = BoundsMinCurrent(orients),
                                      !.status2 = r2.status, !.fun2 = r2.fun, !.x = r2.x]
            IN  IF r2.status # 0
                THEN [lp |-> l2, outcome |-> Raised("TypeError")]
                ELSE LET alloc == Recombine(r2.x)
                         d     == Derate(alloc, orients, budget)
                     IN  [lp |-> [l2 EXCEPT !.alloc = alloc,
                                            !.current_quadratic = d.current_quadratic,
                                            !.root = d.root,
                                            !.thrust_value = d.thrust_value],
                          outcome |-> d.outcome]
    IN  UNION {IF r1.status # 0
               THEN {[lp |-> lp1(r1), outcome |-> Raised("TypeError")]}
               ELSE {after(r1, r2) :
                        r2 \in MinCurrentResults(orients, t_constraints, MaxThrustOf(r1.fun))}
               : r1 \in firsts}

----------------------------------------------------------------------------
(* main: the sweep, lines 268-324 *)

\* the --resolution the model is run on: np.mgrid[0:2pi:5j, 0:pi:2.5j] has
\* 5 x 2 vertices, u at the multiples of 90 degrees and v at 0 and 180
resolution == 5

NumU == resolution
NumV == resolution \div 2
NumCells == NumU * NumV

\* u[i][j] and v[i][j] in degrees (line 302)
GridU(i) == (360 * i) \div (NumU - 1)
GridV(j) == (180 * j) \div (NumV - 1)

\* lines 313-315, for the cell'th vertex of the double loop
GridDir(c) ==
    LET i == c \div NumV
        j == c % NumV
    IN  <<CosDeg(GridV(j)),
          SinDeg(GridU(i)) * SinDeg(GridV(j)),
          CosDeg(GridU(i)) * SinDeg(GridV(j))>>

\* np.ceil, in whole kgf
Ceil(t) == ((t + KGF - 1) \div KGF) * KGF

\* the target directions of a direct call
DirBox == {<<a, b, c>> : a \in -MaxDir..MaxDir, b \in -MaxDir..MaxDir, c \in -MaxDir..MaxDir}

----------------------------------------------------------------------------
(* The state machine *)

Init ==
    /\ thrusters \in {LoadThrusters(ThrusterFiles[f]) : f \in 1..Len(ThrusterFiles)}
    /\ max_current \in MaxCurrents
    /\ pc = "init"
    /\ caller = "none"
    /\ cell = 0
    /\ target = <<0, 0, 0>>
    /\ new_bases = <<NaNVec, NaNVec, NaNVec>>
    /\ transformed = <<>>
    /\ tstatus = "none"
    /\ lp = NoLp
    /\ outcome = NoOutcome
    /\ mesh = <<>>
    /\ max_rho = 0

\* transform_orientations(thrusters, d), lines 39-74
Transform(d) ==
    LET B == NewBases(d)
    IN  /\ target' = d
        /\ new_bases' = B
        /\ tstatus' = TransformStatus(B)
        /\ transformed' = IF TransformStatus(B) = "returned"
                          THEN TransformResult(thrusters, B) ELSE <<>>
        /\ pc' = IF TransformStatus(B) = "returned" THEN "transformed" ELSE "crashed"

\* a direct call of transform_orientations with any target direction
ApiTransform ==
    /\ pc = "init"
    /\ caller' = "api"
    /\ \E d \in DirBox : Transform(d)
    /\ UNCHANGED <<thrusters, max_current, cell, lp, outcome, mesh, max_rho>>

\* main, lines 276-310: up to the double loop
MainStart ==
    /\ pc = "init"
    /\ caller' = "main"
    /\ pc' = "loop"
    /\ cell' = 0
    /\ mesh' = <<>>
    /\ max_rho' = 0
    /\ UNCHANGED <<thrusters, max_current, target, new_bases, transformed, tstatus, lp, outcome>>

\* main, lines 311-316: the next vertex
SweepTransform ==
    /\ pc = "loop"
    /\ cell < NumCells
    /\ Transform(GridDir(cell))
    /\ UNCHANGED <<thrusters, max_current, caller, cell, lp, outcome, mesh, max_rho>>

\* get_max_thrust(transformed_orientations, torque_constraints, max_current):
\* on nan orientations linprog rejects its input with a ValueError; an
\* exception in the sweep ends main
GetMaxThrust ==
    /\ pc = "transformed"
    /\ IF AllNaN(transformed) THEN TRUE ELSE AllExact(transformed)
    /\ IF AllNaN(transformed)
       THEN lp' = NoLp /\ outcome' = Raised("ValueError")
       ELSE \E run \in GetMaxThrustRuns(Values3(transformed),
                                        [i \in 1..Len(thrusters) |-> torque(thrusters[i])],
                                        max_current) :
                lp' = run.lp /\ outcome' = run.outcome
    /\ pc' = IF caller = "api" THEN "returned"
             ELSE IF outcome'.kind = "returned" THEN "got" ELSE "crashed"
    /\ UNCHANGED <<thrusters, max_current, caller, cell, target, new_bases, transformed,
                   tstatus, mesh, max_rho>>

\* main, lines 319-322: storing a complex rho keeps its real part (numpy
\* warns), and max compares real parts first
StoreSample ==
    /\ pc = "got"
    /\ mesh' = Append(mesh, <<target[1] * outcome.re, target[2] * outcome.re,
                              target[3] * outcome.re>>)
    /\ max_rho' = IF outcome.re > max_rho THEN outcome.re ELSE max_rho
    /\ cell' = cell + 1
    /\ pc' = "loop"
    /\ UNCHANGED <<thrusters, max_current, caller, target, new_bases, transformed, tstatus,
                   lp, outcome>>

\* main, line 324: after the double loop
SweepDone ==
    /\ pc = "loop"
    /\ cell = NumCells
    /\ max_rho' = Ceil(max_rho)
    /\ pc' = "done"
    /\ UNCHANGED <<thrusters, max_current, caller, cell, target, new_bases, transformed,
                   tstatus, lp, outcome, mesh>>

Next == ApiTransform \/ MainStart \/ SweepTransform \/ GetMaxThrust \/ StoreSample \/ SweepDone

Spec == Init /\ [][Next]_vars

----------------------------------------------------------------------------
(* The claims *)

\* get_max_thrust has just been called on the orientations in transformed
JustCalled == pc \in {"got", "returned", "crashed"} /\ outcome.kind # "none"

\* both programs were solved and the allocation recombined
Allocated == JustCalled /\ lp.status1 = 0 /\ lp.status2 = 0

RECURSIVE SumForwardBounds(_, _)
SumForwardBounds(ths, n) ==
    IF n = 0 THEN 0 ELSE SumForwardBounds(ths, n - 1) + ths[n].max_thrusts[2]

RECURSIVE SumAbs(_, _)
SumAbs(alloc, n) == IF n = 0 THEN 0 ELSE SumAbs(alloc, n - 1) + Abs(alloc[n])

ProbeCurrents == (-MaxProbe)..MaxProbe

RealReturn(o) == o.kind = "returned" /\ ~o.complex

C2_InfeasibleCurrentRaises ==
    Allocated /\ (lp.root.kind = "complex" \/ (lp.root.kind = "real" /\ lp.root.re < 0))
        => outcome.kind = "CurrentInfeasibleError"

\* C3: transform_orientations called with the zero vector ends in
\* DegenerateInputError and returns no orientations.
C3_ZeroDirectionRaises ==
    tstatus # "none" /\ target = <<0, 0, 0>> => tstatus = "DegenerateInputError"

\* C5: thruster i's variable of the first program is bounded by thruster i's
\* own max_thrusts, and its half-variables of the second program by
\* [0, its max] and [0, the magnitude of its min].
C5_BoundsFromConfiguration ==
    Allocated =>
        \A i \in 1..Len(thrusters) :
            /\ lp.bounds[i] = thrusters[i].max_thrusts
            /\ lp.bounds_mincurrent[2 * i - 1] = <<0, thrusters[i].max_thrusts[2]>>
            /\ lp.bounds_mincurrent[2 * i] = <<0, -thrusters[i].max_thrusts[1]>>

\* C6: for the thruster set and direction of a call, the thrust returned
\* with a larger current budget is >= the thrust returned with a smaller one
\* (the budget of the call against every budget of ProbeCurrents; thrusts
\* are the real numbers returned).
C6_DeratingMonotone ==
    Allocated /\ RealReturn(outcome) =>
        \A I \in ProbeCurrents :
            LET other == Derate(lp.alloc, Values3(transformed), I).outcome
            IN  RealReturn(other) =>
                    /\ I >= max_current => other.re >= outcome.re
                    /\ I <= max_current => other.re <= outcome.re

\* C6's case: a derated thrust (scale below 1) that a larger budget raises
C6_Witness ==
    /\ Allocated /\ RealReturn(outcome)
    /\ 0 < lp.root.re /\ lp.root.re < 1000
    /\ \E I \in ProbeCurrents :
          /\ I > max_current
          /\ RealReturn(Derate(lp.alloc, Values3(transformed), I).outcome)
          /\ Derate(lp.alloc, Values3(transformed), I).outcome.re > outcome.re

\* C7: in every optimal solution of the second program at most one of a
\* thruster's forward and reverse half-variables is non-zero, the recombined
\* allocation has total magnitude equal to the objective, and it reproduces
\* the target-axis thrust of the first equality row.
C7_HalvesComplementary ==
    Allocated =>
        /\ \A i \in 1..Len(thrusters) : lp.x[2 * i - 1] = 0 \/ lp.x[2 * i] = 0
        /\ SumAbs(lp.alloc, Len(lp.alloc)) = lp.fun2
        /\ ThrustValue(lp.alloc, Values3(transformed), Len(lp.alloc)) = lp.max_thrust

\* C7's case: an optimum with one thruster forward and another in reverse
C7_Witness ==
    /\ Allocated
    /\ \E i \in 1..Len(thrusters) : lp.x[2 * i - 1] > 0
    /\ \E i \in 1..Len(thrusters) : lp.x[2 * i] > 0

C9_SecondProgramFeasible ==
    JustCalled /\ lp.status1 = 0 => lp.status2 = 0

\* C9's case: a positive optimum reproduced with a thruster in reverse
C9_Witness ==
    /\ JustCalled /\ lp.status1 = 0 /\ lp.status2 = 0
    /\ lp.max_thrust > 0
    /\ \E i \in 1..Len(thrusters) : lp.alloc[i] < 0

\* C10: in a direction in which no thrust is achievable (the allocation is
\* zero for every thruster) get_max_thrust returns 0 without an error and
\* the sweep goes on.
C10_ZeroThrustReturnsZero ==
    Allocated /\ (\A i \in 1..Len(lp.alloc) : lp.alloc[i] = 0)
        => outcome.kind = "returned" /\ outcome.re = 0 /\ pc # "crashed"

====
